---- MODULE Spec2Model ----
(***************************************************************************)
(* Model of the RAG pipeline of RAGPROJECT: the two Inngest functions of   *)
(* main.py (rag_ingest_pdf, rag_query_pdf_ai), the durable step execution  *)
(* they are run under (ctx.step.run: memoized steps, retries, re-drives),  *)
(* the admission policy configured on the ingest function (throttle and    *)
(* rate limit) and the vector store they share; the session store of       *)
(* chat_history.py (ChatHistoryManager) under concurrent callers; and the  *)
(* query form of streamlit_app.py with its polling of the run's status.    *)
(***************************************************************************)
EXTENDS Integers, Sequences, FiniteSets, TLC

(* ------------------------------ bounds -------------------------------- *)

\* Number of events that are sent (admission of the ingest function).
MaxEvents == 3
\* Number of those whose runs are driven through their steps with failures,
\* crashes and cancellation.
MaxRuns == 2
\* Number of chunks of the longest document.
MaxChunks == 2
\* Attempts the engine gives one step before the run fails (the functions of
\* main.py set no `retries=`, so the engine's default bound applies).
MaxAttempts == 2
\* Crashes of the worker process injected per run.
MaxCrashes == 1

\* Number of chat sessions created.
MaxSessions == 2
\* Number of add_message calls made.
MaxCalls == 2
\* Last reading of the clock the session store stamps its records with.
MaxClock == 1

Runs == 1..MaxEvents
Driven == 1..MaxRuns
\* Session identifiers: create_session hands out 1..MaxSessions; 0 is an
\* identifier no session was ever created with.
SessionIds == 0..MaxSessions
Calls == 1..MaxCalls

(* ------------------------------- state -------------------------------- *)

VARIABLES
  pc,        \* run -> Idle | Queued | Running | Succeeded | Failed | Cancelled
  ev,        \* run -> the triggering event
  memo,      \* run -> the memoized step outputs, in step order
  cur,       \* run -> the step whose body is executing (0: none)
  attempts,  \* run -> failed attempts of the current step
  crashes,   \* run -> crashes injected so far
  lastErr,   \* run -> the last exception of the current step
  output,    \* run -> what the function returned
  store,     \* the vector store: records in insertion order
  hist,      \* run -> counts of step executions and of external calls
  startAge,  \* run -> ticks since the run started (-1: not started)
  admitAge,  \* run -> ticks since the rate limit let the event through (-1: not)
  files,     \* session id -> the record file chat_sessions/<id>.json
  now,       \* the clock read by datetime.now()
  call,      \* add_message call -> its position, arguments and loaded session
  raced,     \* sessions on which two add_message calls overlapped
  listing,   \* what the last get_all_sessions call returned
  shown,     \* session id -> what get_session_history loaded when last called
  app        \* the query form handler of streamlit_app.py and its polling loop

\* The state of the session store and of the application that calls it.
appVars == <<files, now, call, raced, listing, shown, app>>

vars == <<pc, ev, memo, cur, attempts, crashes, lastErr, output, store, hist,
          startAge, admitAge, files, now, call, raced, listing, shown, app>>

(* --------------------------- events (inputs) -------------------------- *)

IngestName == "rag/ingest_pdf"
QueryName == "rag/query_pdf_ai"

\* Two uploads with the same file name (different directories), an upload of
\* another file, and one event that carries no source_id.
IngestEvents ==
  { [name |-> IngestName, data |-> [pdf_path |-> "/u/a.pdf", source_id |-> "a.pdf"]],
    [name |-> IngestName, data |-> [pdf_path |-> "/v/a.pdf", source_id |-> "a.pdf"]],
    [name |-> IngestName, data |-> [pdf_path |-> "/u/b.pdf", source_id |-> "b.pdf"]],
    [name |-> IngestName, data |-> [pdf_path |-> "/u/a.pdf"]] }

\* The events send_rag_ingest_event_sync sends: they carry source_id.
SentIngestEvents == {e \in IngestEvents : "source_id" \in DOMAIN e.data}

QueryEvents ==
  { [name |-> QueryName, data |-> [question |-> "q", top_k |-> 0]],
    [name |-> QueryName, data |-> [question |-> "q", top_k |-> 1]],
    [name |-> QueryName, data |-> [question |-> "q"]] }

Events == IngestEvents \cup QueryEvents

NoEvent == [name |-> "none"]

\* Where a step body can raise, and the class of the exception raised there: the
\* embedder and the store being unavailable are transient; a file that cannot be
\* read and an argument the store rejects stay wrong on every retry.
ErrorClass(at) == IF at \in {"embed", "upsert", "unavailable"} THEN "transient" ELSE "permanent"

(* ------------------------ data_loader.py ------------------------------ *)

\* The document stored at a path: /u/a.pdf splits into MaxChunks chunks, the
\* others into one chunk fewer.
DocLen(path) == IF path = "/u/a.pdf" THEN MaxChunks ELSE MaxChunks - 1

\* load_and_chunk_pdf: the chunk texts of the document, in order.
load_and_chunk_pdf(path) ==
  [i \in 1..DocLen(path) |-> path \o "#" \o ToString(i)]

\* embed_texts: one vector per text, in input order; the encoder is a
\* deterministic function of the text.
embed_texts(texts) == [i \in 1..Len(texts) |-> <<"vec", texts[i]>>]

(* --------------------------- vector store ----------------------------- *)

\* QdrantStorage.upsert of one point: replace the record with the same id, or
\* insert it (insertion order is kept).
UpsertOne(st, rec) ==
  IF \E i \in 1..Len(st) : st[i].id = rec.id
  THEN [i \in 1..Len(st) |-> IF st[i].id = rec.id THEN rec ELSE st[i]]
  ELSE Append(st, rec)

RECURSIVE Upsert(_, _)
\* QdrantStorage.upsert(ids, vecs, payloads): the points in batch order.
Upsert(st, recs) ==
  IF recs = <<>> THEN st ELSE Upsert(UpsertOne(st, Head(recs)), Tail(recs))

Min(a, b) == IF a <= b THEN a ELSE b

\* QdrantStorage.search(query_vec, top_k) on a valid top_k: at most top_k
\* records; equally similar records come in insertion order.
Search(st, qvec, k) ==
  LET hits == SubSeq(st, 1, Min(k, Len(st)))
  IN [contexts |-> [i \in 1..Len(hits) |-> hits[i].payload.text],
      sources |-> [i \in 1..Len(hits) |-> hits[i].payload.source]]

\* search rejects a non-positive top_k (InvalidArgument).
SearchRejects(k) == k <= 0

(* ------------------------------ main.py ------------------------------- *)

\* The fixed text get_groq_answer returns when the call fails.
Apology ==
  "I apologize, but I'm having trouble generating a response right now. Please try again."

\* What the chat-completions request can do: answer, or fail by timeout, by a
\* non-2xx status (raise_for_status) or by a body without choices[0].message.content.
\* The content drawn is already stripped and holds no escaped newline.
LlmOutcomes ==
  { [kind |-> "ok", content |-> "the answer"],
    [kind |-> "timeout", content |-> ""],
    [kind |-> "http_error", content |-> ""],
    [kind |-> "malformed", content |-> ""] }

\* A variant of get_groq_answer whose fallback is the (empty) response content.
get_groq_answer_no_fallback(outcome) == outcome.content

\* get_groq_answer: the content on success; every exception is caught and
\* replaced by the apology.
get_groq_answer(outcome) ==
  IF outcome.kind = "ok" THEN outcome.content ELSE Apology

DefaultTopK == 5

\* top_k = int(ctx.event.data.get("top_k", 5))
TopK(e) == IF "top_k" \in DOMAIN e.data THEN e.data.top_k ELSE DefaultTopK

\* Path.name: the last component of a path (send_rag_ingest_event_sync sends it
\* as source_id).
FileName(path) ==
  CASE path = "/u/a.pdf" -> "a.pdf"
    [] path = "/v/a.pdf" -> "a.pdf"
    [] path = "/u/b.pdf" -> "b.pdf"
    [] OTHER -> path

\* rag_ingest_pdf._load: the chunks of the document and the source identifier,
\* which defaults to pdf_path when the event carries none.
_load(e) ==
  [chunks |-> load_and_chunk_pdf(e.data.pdf_path),
   source_id |-> IF "source_id" \in DOMAIN e.data THEN e.data.source_id
                 ELSE e.data.pdf_path]

\* A variant of IdName that leaves the chunk index out of the name.
IdNameNoIndex(source_id, i) == source_id

\* The name hashed into a record id: f"{source_id}:{i}".
IdName(source_id, i) == source_id \o ":" \o ToString(i)

\* A variant of RecordId that draws a fresh id on every call (uuid4).
RecordIdFresh(source_id, i) == <<"uuid4", ToString(Len(store) + i)>>

\* str(uuid.uuid5(uuid.NAMESPACE_URL, name)): a function of the name alone
\* (distinct names are taken to hash to distinct ids).
RecordId(source_id, i) == <<"uuid5", IdName(source_id, i)>>

\* A variant of UpsertBatch that numbers the chunks from 1.
UpsertBatchOneBased(cs) ==
  LET vecs == embed_texts(cs.chunks)
  IN [j \in 1..Len(cs.chunks) |->
        [id |-> RecordId(cs.source_id, j),
         vector |-> vecs[j],
         payload |-> [source |-> cs.source_id, text |-> cs.chunks[j]]]]

\* rag_ingest_pdf._upsert builds one point per chunk, i = 0..len(chunks)-1.
UpsertBatch(cs) ==
  LET vecs == embed_texts(cs.chunks)
  IN [j \in 1..Len(cs.chunks) |->
        [id |-> RecordId(cs.source_id, j - 1),
         vector |-> vecs[j],
         payload |-> [source |-> cs.source_id, text |-> cs.chunks[j]]]]

\* RAGUpsertResult(ingested=len(chunks))
UpsertResult(cs) == [ingested |-> Len(cs.chunks)]

\* rag_query_pdf_ai's return value, from the two memoized step outputs.
QueryResult(found, answer) ==
  [answer |-> answer, sources |-> found.sources, num_contexts |-> Len(found.contexts)]

\* The steps of each function, in the order of its ctx.step.run calls.
StepNames(e) ==
  IF e.name = IngestName THEN <<"load-and-chunk", "embed-and-upsert">>
  ELSE <<"embed-and-search", "llm-answer">>

(* --------------------------- initial state ---------------------------- *)

Terminal == {"Succeeded", "Failed", "Cancelled"}

NoErr == [cls |-> "none", at |-> "none"]
NoOutput == [pending |-> TRUE]
\* Observations of a run: completions per step, how often each external call was
\* made and how often the whole batch was stored (counted up to "twice or more"),
\* whether the run stored any point, whether its last LLM request failed, and
\* whether its event arrived with the throttle closed.
NoHist ==
  [done |-> <<0, 0>>, embed |-> 0, upsert |-> 0,
   stored |-> 0, search |-> 0, llm |-> 0, llmFailed |-> FALSE, wrote |-> FALSE,
   beyond |-> FALSE]

Bump(n) == Min(n + 1, 2)

\* No record file; no add_message call; no listing; the form not submitted.
NoFile == [state |-> "none", data |-> <<>>]
NoCall == [pc |-> "idle", sid |-> 0, msg |-> <<>>, snap |-> <<>>, outcome |-> "none"]
NoListing == [status |-> "none", sessions |-> <<>>]
NoApp ==
  [pc |-> "idle", session |-> 0, question |-> "", sent |-> FALSE, elapsed |-> 0,
   status |-> "none", last_status |-> "none", output |-> NoOutput]

IsIngest(r) == ev[r].name = IngestName
IsQuery(r) == ev[r].name = QueryName

Init ==
  /\ pc = [r \in Runs |-> "Idle"]
  /\ ev = [r \in Runs |-> NoEvent]
  /\ memo = [r \in Runs |-> <<>>]
  /\ cur = [r \in Runs |-> 0]
  /\ attempts = [r \in Runs |-> 0]
  /\ crashes = [r \in Runs |-> 0]
  /\ lastErr = [r \in Runs |-> NoErr]
  /\ output = [r \in Runs |-> NoOutput]
  /\ store = <<>>
  /\ hist = [r \in Runs |-> NoHist]
  /\ startAge = [r \in Runs |-> -1]
  /\ admitAge = [r \in Runs |-> -1]
  /\ files = [s \in SessionIds |-> NoFile]
  /\ now = 0
  /\ call = [c \in Calls |-> NoCall]
  /\ raced = {}
  /\ listing = NoListing
  /\ shown = [s \in SessionIds |-> <<>>]
  /\ app = NoApp

(* ---------------------- durable step execution ------------------------ *)

\* A variant of ResumePoint that ignores the memo and runs the first step again.
ResumePointRestart(m) == 1

\* ctx.step.run on a (re-)invocation of the function: a step whose output is in
\* the memo returns it without running; the first step without one runs.
ResumePoint(m) == Len(m) + 1

\* The memo is keyed by (run, step name): the output of step i of the run.
Memoize(m, i, out) == IF i <= Len(m) THEN [m EXCEPT ![i] = out] ELSE Append(m, out)

\* A variant of AfterError that fails the run on the first exception.
AfterErrorNoRetry(n, cls) == "Failed"

\* The engine's retry policy on an exception of a step body: whatever its class,
\* the step is tried again until its attempts are used up, then the run fails.
AfterError(n, cls) == IF n >= MaxAttempts THEN "Failed" ELSE "Running"

\* An event is sent; its run is queued.  Runs are numbered in trigger order.
Trigger(r, e) ==
  /\ pc[r] = "Idle"
  /\ IF r = 1 THEN TRUE ELSE pc[r - 1] # "Idle"
  /\ pc' = [pc EXCEPT ![r] = "Queued"]
  /\ ev' = [ev EXCEPT ![r] = e]
  /\ UNCHANGED <<memo, cur, attempts, crashes, lastErr, output, store, hist, startAge, admitAge,
                 appVars>>

\* The engine starts a queued run.
Start(r) ==
  /\ pc[r] = "Queued"
  /\ pc' = [pc EXCEPT ![r] = "Running"]
  /\ UNCHANGED <<ev, memo, cur, attempts, crashes, lastErr, output, store, hist, startAge, admitAge,
                 appVars>>

\* The function is invoked (first drive, retry or re-drive after a crash) and
\* reaches the step to run.
BeginStep(r) ==
  /\ pc[r] = "Running"
  /\ cur[r] = 0
  /\ ResumePoint(memo[r]) <= Len(StepNames(ev[r]))
  /\ cur' = [cur EXCEPT ![r] = ResumePoint(memo[r])]
  /\ UNCHANGED <<pc, ev, memo, attempts, crashes, lastErr, output, store, hist, startAge, admitAge,
                 appVars>>

\* The step body returned: the engine memoizes its output.
StepDone(r, out) ==
  /\ memo' = [memo EXCEPT ![r] = Memoize(@, cur[r], out)]
  /\ cur' = [cur EXCEPT ![r] = 0]
  /\ attempts' = [attempts EXCEPT ![r] = 0]
  /\ lastErr' = [lastErr EXCEPT ![r] = NoErr]
  /\ UNCHANGED <<pc, ev, crashes, output, startAge, admitAge,
                 appVars>>

\* The step body raised: nothing is memoized, the attempt is counted.
StepError(r, at) ==
  /\ attempts' = [attempts EXCEPT ![r] = @ + 1]
  /\ lastErr' = [lastErr EXCEPT ![r] = [cls |-> ErrorClass(at), at |-> at]]
  /\ cur' = [cur EXCEPT ![r] = 0]
  /\ pc' = [pc EXCEPT ![r] = AfterError(attempts[r] + 1, ErrorClass(at))]
  /\ UNCHANGED <<ev, memo, crashes, output, startAge, admitAge,
                 appVars>>

\* The worker died while the step body ran: nothing is memoized.
StepCrash(r) ==
  /\ crashes[r] < MaxCrashes
  /\ crashes' = [crashes EXCEPT ![r] = @ + 1]
  /\ cur' = [cur EXCEPT ![r] = 0]
  /\ UNCHANGED <<pc, ev, memo, attempts, lastErr, output, startAge, admitAge,
                 appVars>>

InStep(r, name) ==
  /\ pc[r] = "Running"
  /\ cur[r] # 0
  /\ StepNames(ev[r])[cur[r]] = name

(* --------------------------- rag_ingest_pdf --------------------------- *)

\* Step load-and-chunk: _load returns.
LoadOk(r) ==
  /\ InStep(r, "load-and-chunk")
  /\ StepDone(r, _load(ev[r]))
  /\ hist' = [hist EXCEPT ![r].done[cur[r]] = @ + 1]
  /\ UNCHANGED store

\* Step load-and-chunk: load_and_chunk_pdf raises (unreadable or missing file).
LoadFails(r) ==
  /\ InStep(r, "load-and-chunk")
  /\ StepError(r, "load")
  /\ UNCHANGED <<store, hist>>

\* A variant of UpsertOk that first deletes the records of the source.
UpsertOkReplacing(r) ==
  /\ InStep(r, "embed-and-upsert")
  /\ store' = Upsert(SelectSeq(store, LAMBDA rec : rec.payload.source # memo[r][1].source_id),
                     UpsertBatch(memo[r][1]))
  /\ StepDone(r, UpsertResult(memo[r][1]))
  /\ hist' = [hist EXCEPT ![r] =
       [@ EXCEPT !.done[cur[r]] = @ + 1, !.embed = Bump(@), !.upsert = Bump(@),
                 !.stored = Bump(@), !.wrote = TRUE]]

\* Step embed-and-upsert: _upsert embeds, builds the points, upserts and returns.
UpsertOk(r) ==
  /\ InStep(r, "embed-and-upsert")
  /\ store' = Upsert(store, UpsertBatch(memo[r][1]))
  /\ StepDone(r, UpsertResult(memo[r][1]))
  /\ hist' = [hist EXCEPT ![r] =
       [@ EXCEPT !.done[cur[r]] = @ + 1, !.embed = Bump(@), !.upsert = Bump(@),
                 !.stored = Bump(@), !.wrote = TRUE]]

\* Step embed-and-upsert: QdrantStorage().upsert raises; a failed batch stores
\* nothing (all-or-nothing).
UpsertFails(r) ==
  /\ InStep(r, "embed-and-upsert")
  /\ StepError(r, "upsert")
  /\ hist' = [hist EXCEPT ![r] = [@ EXCEPT !.embed = Bump(@), !.upsert = Bump(@)]]
  /\ UNCHANGED store

(* -------------------------- rag_query_pdf_ai -------------------------- *)

\* Step embed-and-search: _search embeds the question, searches and returns.
SearchOk(r) ==
  /\ InStep(r, "embed-and-search")
  /\ ~SearchRejects(TopK(ev[r]))
  /\ StepDone(r, Search(store, embed_texts(<<ev[r].data.question>>)[1], TopK(ev[r])))
  /\ hist' = [hist EXCEPT ![r] =
       [@ EXCEPT !.done[cur[r]] = @ + 1, !.embed = Bump(@), !.search = Bump(@)]]
  /\ UNCHANGED store

\* Step embed-and-search: store.search raises, because it rejects top_k or
\* because the store is unavailable.
SearchFails(r) ==
  /\ InStep(r, "embed-and-search")
  /\ StepError(r, IF SearchRejects(TopK(ev[r])) THEN "search" ELSE "unavailable")
  /\ hist' = [hist EXCEPT ![r] = [@ EXCEPT !.embed = Bump(@), !.search = Bump(@)]]
  /\ UNCHANGED store

\* Step llm-answer: get_groq_answer returns, whatever the request did.
LlmAnswer(r, o) ==
  /\ InStep(r, "llm-answer")
  /\ StepDone(r, get_groq_answer(o))
  /\ hist' = [hist EXCEPT ![r] =
       [@ EXCEPT !.done[cur[r]] = @ + 1, !.llm = Bump(@), !.llmFailed = (o.kind # "ok")]]
  /\ UNCHANGED store

(* ------------------------ both functions ------------------------------ *)

\* A variant of EmbedFails in which the points of the batch are stored before
\* the failure of the embedder leaves the step body.
EmbedFailsAfterUpsert(r) ==
  /\ InStep(r, "embed-and-upsert")
  /\ store' = Upsert(store, UpsertBatch(memo[r][1]))
  /\ StepError(r, "embed")
  /\ hist' = [hist EXCEPT ![r] =
       [@ EXCEPT !.embed = Bump(@), !.upsert = Bump(@), !.wrote = TRUE]]

\* embed_texts raises (step embed-and-upsert or embed-and-search): the exception
\* leaves the step body before the store is touched.
EmbedFails(r) ==
  /\ InStep(r, "embed-and-upsert") \/ InStep(r, "embed-and-search")
  /\ StepError(r, "embed")
  /\ hist' = [hist EXCEPT ![r].embed = Bump(@)]
  /\ UNCHANGED store

\* The worker dies before the step body has called anything.
CrashBefore(r) ==
  /\ pc[r] = "Running"
  /\ cur[r] # 0
  /\ StepCrash(r)
  /\ UNCHANGED <<store, hist>>

\* The worker dies in embed-and-upsert after k points are stored (k = all of them:
\* after the upsert returned, before the output reached the engine).
CrashInUpsert(r, k) ==
  /\ InStep(r, "embed-and-upsert")
  /\ k \in 0..Len(memo[r][1].chunks)
  /\ store' = Upsert(store, SubSeq(UpsertBatch(memo[r][1]), 1, k))
  /\ StepCrash(r)
  /\ hist' = [hist EXCEPT ![r] =
       [@ EXCEPT !.embed = Bump(@), !.upsert = Bump(@), !.wrote = @ \/ k > 0,
                 !.stored = IF k = Len(memo[r][1].chunks) THEN Bump(@) ELSE @]]

\* The worker dies in llm-answer after the request was sent.
CrashInLlm(r) ==
  /\ InStep(r, "llm-answer")
  /\ StepCrash(r)
  /\ hist' = [hist EXCEPT ![r].llm = Bump(@)]
  /\ UNCHANGED store

\* The function returns after its last step: the run succeeds with its output.
Return(r) ==
  /\ pc[r] = "Running"
  /\ cur[r] = 0
  /\ ResumePoint(memo[r]) > Len(StepNames(ev[r]))
  /\ pc' = [pc EXCEPT ![r] = "Succeeded"]
  /\ output' = [output EXCEPT ![r] =
       IF IsIngest(r) THEN memo[r][2] ELSE QueryResult(memo[r][1], memo[r][2])]
  /\ UNCHANGED <<ev, memo, cur, attempts, crashes, lastErr, store, hist, startAge, admitAge,
                 appVars>>

\* A variant of Cancel that also stops a run whose step body is executing.
CancelAnytime(r) ==
  /\ pc[r] \in {"Queued", "Running"}
  /\ pc' = [pc EXCEPT ![r] = "Cancelled"]
  /\ UNCHANGED <<ev, memo, cur, attempts, crashes, lastErr, output, store, hist,
                 startAge, admitAge,
                 appVars>>

\* A cancellation takes effect: only on a run that is not finished and whose
\* step body is not executing.
Cancel(r) ==
  /\ pc[r] \in {"Queued", "Running"}
  /\ cur[r] = 0
  /\ pc' = [pc EXCEPT ![r] = "Cancelled"]
  /\ UNCHANGED <<ev, memo, cur, attempts, crashes, lastErr, output, store, hist, startAge, admitAge,
                 appVars>>

(* ---------------- admission of rag_ingest_pdf runs --------------------- *)

\* Time is counted in ticks of 30 seconds.
\* throttle=inngest.Throttle(limit=2, period=timedelta(minutes=1))
ThrottleLimit == 2
ThrottlePeriod == 2
\* rate_limit=inngest.RateLimit(limit=1, period=timedelta(hours=4), key=...)
RateLimitLimit == 1
RateLimitPeriod == 480
\* Time passes one tick at a time, or two hours at once.
TickSteps == {1, RateLimitPeriod \div 2}

\* key="event.data.source_id"
RateLimitKey(e) == e.data.source_id

\* Runs the rate limit let through for this key within the last period.
RecentAdmits(key) ==
  {r \in Runs : /\ admitAge[r] \in 0..(RateLimitPeriod - 1)
                /\ RateLimitKey(ev[r]) = key}

\* Runs started within the last throttle period.
RecentStarts == {r \in Runs : startAge[r] \in 0..(ThrottlePeriod - 1)}

\* A variant of RateLimited that lets one event more through per period.
RateLimitedOffByOne(e) == Cardinality(RecentAdmits(RateLimitKey(e))) > RateLimitLimit

\* The rate limit: an event over the limit of its key starts no run.
RateLimited(e) == Cardinality(RecentAdmits(RateLimitKey(e))) >= RateLimitLimit

\* A variant of ThrottleOpen that admits one start more per period.
ThrottleOpenOffByOne == Cardinality(RecentStarts) <= ThrottleLimit

\* The throttle: a queued run may start while fewer than limit runs started
\* within the period.
ThrottleOpen == Cardinality(RecentStarts) < ThrottleLimit

\* A rag/ingest_pdf event is sent: the rate limit skips it or queues its run.
Arrive(r, e) ==
  /\ pc[r] = "Idle"
  /\ IF r = 1 THEN TRUE ELSE pc[r - 1] # "Idle"
  /\ ev' = [ev EXCEPT ![r] = e]
  /\ hist' = [hist EXCEPT ![r].beyond = ~ThrottleOpen]
  /\ IF RateLimited(e)
     THEN /\ pc' = [pc EXCEPT ![r] = "Skipped"]
          /\ UNCHANGED admitAge
     ELSE /\ pc' = [pc EXCEPT ![r] = "Queued"]
          /\ admitAge' = [admitAge EXCEPT ![r] = 0]
  /\ UNCHANGED <<memo, cur, attempts, crashes, lastErr, output, store, startAge,
                 appVars>>

\* The throttle lets a queued run start.
ThrottledStart(r) ==
  /\ pc[r] = "Queued"
  /\ ThrottleOpen
  /\ pc' = [pc EXCEPT ![r] = "Running"]
  /\ startAge' = [startAge EXCEPT ![r] = 0]
  /\ UNCHANGED <<ev, memo, cur, attempts, crashes, lastErr, output, store, hist,
                 admitAge,
                 appVars>>

Older(a, d, cap) == IF a < 0 THEN a ELSE Min(a + d, cap)

\* Time passes; an age at its period has left every window and is not counted on.
\* Single ticks are taken while a start is inside the throttle window, where they
\* matter; otherwise time moves in the long step.
Tick(d) ==
  /\ d = 1 => RecentStarts # {}
  /\ startAge' = [r \in Runs |-> Older(startAge[r], d, ThrottlePeriod)]
  /\ admitAge' = [r \in Runs |-> Older(admitAge[r], d, RateLimitPeriod)]
  /\ UNCHANGED <<pc, ev, memo, cur, attempts, crashes, lastErr, output, store, hist,
                 appVars>>

Next ==
  \E r \in Driven :
    \/ \E e \in Events : Trigger(r, e)
    \/ Start(r)
    \/ BeginStep(r)
    \/ LoadOk(r)
    \/ LoadFails(r)
    \/ UpsertOk(r)
    \/ UpsertFails(r)
    \/ SearchOk(r)
    \/ SearchFails(r)
    \/ \E o \in LlmOutcomes : LlmAnswer(r, o)
    \/ EmbedFails(r)
    \/ CrashBefore(r)
    \/ \E k \in 0..MaxChunks : CrashInUpsert(r, k)
    \/ CrashInLlm(r)
    \/ Return(r)
    \/ Cancel(r)

Spec == Init /\ [][Next]_vars

\* The ingest function under its admission policy, up to the point where a started
\* run enters its first step (Spec drives runs from there).  Every queued run
\* that may start does, and time does not stop.
NextAdmit ==
  \/ \E r \in Runs, e \in SentIngestEvents : Arrive(r, e)
  \/ \E r \in Runs : ThrottledStart(r)
  \/ \E d \in TickSteps : Tick(d)
  \/ \E r \in Runs : BeginStep(r)

SpecAdmit ==
  /\ Init
  /\ [][NextAdmit]_vars
  /\ WF_vars(\E d \in TickSteps : Tick(d))
  /\ \A r \in Runs : WF_vars(ThrottledStart(r))

(* --------------------------- chat_history.py --------------------------- *)

\* datetime.now(): the clock counts half seconds.
DateTimeNow == [sec |-> now \div 2, usec |-> (now % 2) * 500000]

\* str(datetime), which json.dump(default=str) writes: the fraction of a second
\* is left out when it is zero.
DateStr(dt) == IF dt.usec = 0 THEN <<dt.sec>> ELSE <<dt.sec, dt.usec>>

\* datetime.fromisoformat
FromIso(t) == [sec |-> t[1], usec |-> IF Len(t) = 1 THEN 0 ELSE t[2]]

\* a > b on datetimes
Later(a, b) == a.sec > b.sec \/ (a.sec = b.sec /\ a.usec > b.usec)

\* json.dump(session.model_dump(), f, default=str): the text of a record.
Serialize(session) ==
  [session_id |-> session.session_id,
   pdf_name |-> session.pdf_name,
   messages |-> [i \in 1..Len(session.messages) |->
                   [question |-> session.messages[i].question,
                    answer |-> session.messages[i].answer,
                    timestamp |-> DateStr(session.messages[i].timestamp),
                    sources |-> session.messages[i].sources]],
   created_at |-> DateStr(session.created_at)]

\* json.load and the conversions of _load_session back to a ChatSession.
Deserialize(data) ==
  [session_id |-> data.session_id,
   pdf_name |-> data.pdf_name,
   messages |-> [i \in 1..Len(data.messages) |->
                   [question |-> data.messages[i].question,
                    answer |-> data.messages[i].answer,
                    timestamp |-> FromIso(data.messages[i].timestamp),
                    sources |-> data.messages[i].sources]],
   created_at |-> FromIso(data.created_at)]

\* The record file of a session: storage_dir / f"{session.session_id}.json".
SessionFile(session_id) == session_id

\* A variant of _save_session that leaves its record as the only one of the
\* storage directory.
_save_session_single(fs, session) ==
  [s \in SessionIds |->
     IF s = SessionFile(session.session_id)
     THEN [state |-> "full", data |-> <<Serialize(session)>>]
     ELSE NoFile]

\* _save_session, once the text is written: the whole record is rewritten.
_save_session(fs, session) ==
  [fs EXCEPT ![SessionFile(session.session_id)] =
     [state |-> "full", data |-> <<Serialize(session)>>]]

\* open(file_path, 'w'): the file exists and is empty until the text is written.
Truncate(fs, session_id) ==
  [fs EXCEPT ![SessionFile(session_id)] = [state |-> "empty", data |-> <<>>]]

\* A variant of _load_session that makes up an empty session for a missing file.
_load_session_or_new(fs, session_id) ==
  IF fs[SessionFile(session_id)].state = "full"
  THEN <<Deserialize(fs[SessionFile(session_id)].data[1])>>
  ELSE <<[session_id |-> session_id, pdf_name |-> "General Chat", messages |-> <<>>,
          created_at |-> DateTimeNow]>>

\* _load_session: the session of the file, or None (the empty sequence) when
\* the file does not exist.  (On an empty file json.load raises: LoadRaises.)
_load_session(fs, session_id) ==
  IF fs[SessionFile(session_id)].state = "full"
  THEN <<Deserialize(fs[SessionFile(session_id)].data[1])>>
  ELSE <<>>

LoadRaises(fs, session_id) == fs[SessionFile(session_id)].state = "empty"

\* get_session_history: session.messages if session else []
get_session_history(fs, session_id) ==
  LET session == _load_session(fs, session_id)
  IN IF session = <<>> THEN <<>> ELSE session[1].messages

\* A variant of AppendMessage that puts the new message first.
PrependMessage(session, message) ==
  [session EXCEPT !.messages = <<message>> \o @]

\* session.messages.append(message)
AppendMessage(session, message) ==
  [session EXCEPT !.messages = Append(@, message)]

\* A variant of InsertByCreatedAt that sorts the oldest session first.
InsertByCreatedAtAscending(sorted, session) ==
  LET before == {i \in 1..Len(sorted) : ~Later(sorted[i].created_at, session.created_at)}
      k == Cardinality(before)
  IN SubSeq(sorted, 1, k) \o <<session>> \o SubSeq(sorted, k + 1, Len(sorted))

\* One step of sorted(sessions, key=created_at, reverse=True): the session goes
\* behind every session that is not older than it (the sort is stable).
InsertByCreatedAt(sorted, session) ==
  LET before == {i \in 1..Len(sorted) : ~Later(session.created_at, sorted[i].created_at)}
      k == Cardinality(before)
  IN SubSeq(sorted, 1, k) \o <<session>> \o SubSeq(sorted, k + 1, Len(sorted))

RECURSIVE SortedByCreatedAt(_)
SortedByCreatedAt(sessions) ==
  IF sessions = <<>> THEN <<>>
  ELSE InsertByCreatedAt(SortedByCreatedAt(SubSeq(sessions, 1, Len(sessions) - 1)),
                         sessions[Len(sessions)])

\* The record files of the storage directory, and the orders glob can list them in.
Stored(fs) == {s \in SessionIds : fs[s].state # "none"}
GlobOrders(fs) ==
  {o \in [1..Cardinality(Stored(fs)) -> Stored(fs)] :
     \A i, j \in DOMAIN o : i # j => o[i] # o[j]}

\* get_all_sessions over the files in the order glob lists them.
get_all_sessions(fs, order) ==
  SortedByCreatedAt([i \in DOMAIN order |-> _load_session(fs, order[i])[1]])

PdfNames == {"a.pdf", "General Chat"}
\* The question of the c-th add_message call.
Question(c) == "q" \o ToString(c)

PipelineVars ==
  <<pc, ev, memo, cur, attempts, crashes, lastErr, output, store, hist, startAge, admitAge>>

\* The identifier uuid4 draws: one no session was created with.
FreshIds == {s \in SessionIds \ {0} : files[s].state = "none"}

NewSessionId == CHOOSE s \in FreshIds : \A t \in FreshIds : s <= t

\* create_session(pdf_name): a new record with no messages, stamped now.  The
\* identifier is known to nobody before the call returns.
CreateSessionIn(pdf_name) ==
  /\ FreshIds # {}
  /\ files' = _save_session(files,
                [session_id |-> NewSessionId, pdf_name |-> pdf_name,
                 messages |-> <<>>, created_at |-> DateTimeNow])
  /\ UNCHANGED <<now, call, raced, listing, shown>>

CreateSession(pdf_name) ==
  CreateSessionIn(pdf_name) /\ UNCHANGED <<app, PipelineVars>>

\* add_message, line 26: the session is loaded.  Without a record the call
\* returns at once; on a record another call is rewriting, json.load raises.
AddLoadIn(c, session_id, message) ==
  /\ call[c].pc = "idle"
  /\ IF c = 1 THEN TRUE ELSE call[c - 1].pc # "idle"
  /\ IF LoadRaises(files, session_id)
     THEN call' = [call EXCEPT ![c] =
            [pc |-> "done", sid |-> session_id, msg |-> <<>>, snap |-> <<>>,
             outcome |-> "raised"]]
     ELSE IF _load_session(files, session_id) = <<>>
     THEN call' = [call EXCEPT ![c] =
            [pc |-> "done", sid |-> session_id, msg |-> <<>>, snap |-> <<>>,
             outcome |-> "noop"]]
     ELSE call' = [call EXCEPT ![c] =
            [pc |-> "loaded", sid |-> session_id, msg |-> <<message>>,
             snap |-> _load_session(files, session_id), outcome |-> "none"]]
  /\ raced' = IF \E d \in Calls \ {c} :
                   call[d].sid = session_id /\ call[d].pc \in {"loaded", "opened"}
              THEN raced \cup {session_id} ELSE raced
  /\ UNCHANGED <<files, now, listing, shown>>

\* add_message, lines 28-35 up to open(file_path, 'w'): the message is stamped
\* and the record file is opened for writing.
AddOpenIn(c) ==
  /\ call[c].pc = "loaded"
  /\ call' = [call EXCEPT ![c] =
       [@ EXCEPT !.pc = "opened",
                 !.msg = <<[call[c].msg[1] EXCEPT !.timestamp = DateTimeNow]>>]]
  /\ files' = Truncate(files, call[c].snap[1].session_id)
  /\ UNCHANGED <<now, raced, listing, shown>>

\* add_message, line 55: json.dump writes the whole record, the loaded session
\* with the message appended; the call returns.
AddWriteIn(c) ==
  /\ call[c].pc = "opened"
  /\ files' = _save_session(files, AppendMessage(call[c].snap[1], call[c].msg[1]))
  /\ call' = [call EXCEPT ![c] = [@ EXCEPT !.pc = "done", !.outcome = "saved"]]
  /\ UNCHANGED <<now, raced, listing, shown>>

NewMessage(question) ==
  [question |-> question, answer |-> "an answer", timestamp |-> DateTimeNow,
   sources |-> <<"a.pdf">>]

\* An add_message call of some caller of the session store.
AddLoad(c, session_id) ==
  AddLoadIn(c, session_id, NewMessage(Question(c))) /\ UNCHANGED <<app, PipelineVars>>
AddOpen(c) == AddOpenIn(c) /\ UNCHANGED <<app, PipelineVars>>
AddWrite(c) == AddWriteIn(c) /\ UNCHANGED <<app, PipelineVars>>

\* get_session_history of every session, by a caller who serializes with the
\* writers (no record is in the middle of a rewrite).
GetSessionHistory ==
  /\ \A s \in SessionIds : ~LoadRaises(files, s)
  /\ shown' = [s \in SessionIds |-> _load_session(files, s)]
  /\ UNCHANGED <<files, now, call, raced, listing, app, PipelineVars>>

\* get_all_sessions(): json.load raises on a record that is being rewritten.
ListSessions(order) ==
  /\ listing' =
       IF \E s \in Stored(files) : LoadRaises(files, s)
       THEN [status |-> "raised", sessions |-> <<>>]
       ELSE [status |-> "ok", sessions |-> get_all_sessions(files, order)]
  /\ UNCHANGED <<files, now, call, raced, shown, app, PipelineVars>>

\* The clock advances.
ClockTick ==
  /\ now < MaxClock
  /\ now' = now + 1
  /\ UNCHANGED <<files, call, raced, listing, shown, app, PipelineVars>>

NextChat ==
  \/ \E n \in PdfNames : CreateSession(n)
  \/ \E c \in Calls, s \in SessionIds : AddLoad(c, s)
  \/ \E c \in Calls : AddOpen(c)
  \/ \E c \in Calls : AddWrite(c)
  \/ GetSessionHistory
  \/ \E o \in GlobOrders(files) : ListSessions(o)
  \/ ClockTick

SpecChat == Init /\ [][NextChat]_vars

(* --------------------------- streamlit_app.py -------------------------- *)

\* wait_for_run_output's timeout_s = 120.0, in ticks of 30 seconds.
PollTimeout == 4

\* send_rag_query_event_sync: the event the form sends.
AppQueryEvent(question) ==
  [name |-> QueryName, data |-> [question |-> question, top_k |-> 5]]

\* run.get("status") of runs[0] as the runs endpoint reports the run of the event
\* ("none": the list of runs is still empty).
ReportedStatuses(p) ==
  CASE p = "Idle" -> {"none"}
    [] p = "Queued" -> {"Queued"}
    [] p = "Running" -> {"Running"}
    [] p = "Succeeded" -> {"Completed", "Succeeded", "Success", "Finished"}
    [] p = "Failed" -> {"Failed"}
    [] p = "Cancelled" -> {"Cancelled"}

\* run.get("output"): the run's output, or none where the endpoint gives none.
ReportedOutputs(r) == IF pc[r] = "Succeeded" THEN {output[r], NoOutput} ELSE {NoOutput}

\* A variant of Classify that takes a cancelled run for one still in progress.
ClassifyFailedOnly(status) ==
  IF status \in {"Completed", "Succeeded", "Success", "Finished"} THEN "returned"
  ELSE IF status \in {"Failed"} THEN "failed"
  ELSE "check"

\* wait_for_run_output, lines 117-124: what the loop does on a reported status.
Classify(status) ==
  IF status \in {"Completed", "Succeeded", "Success", "Finished"} THEN "returned"
  ELSE IF status \in {"Failed", "Cancelled"} THEN "failed"
  ELSE "check"

\* {} in `run.get("output") or {}`
EmptyDict == [empty |-> TRUE]
ReturnedOutput(out) == IF out = NoOutput THEN EmptyDict ELSE out

\* output.get("answer", "") and output.get("sources", [])
AnswerOf(out) == IF "answer" \in DOMAIN out THEN out.answer ELSE ""
SourcesOf(out) == IF "sources" \in DOMAIN out THEN out.sources ELSE <<>>

\* A variant of ShouldAppend that stores every answer.
ShouldAppendAlways(answer) == TRUE

\* `if answer:` before chat_manager.add_message
ShouldAppend(answer) == answer # ""

\* The upload handler creates the session of the conversation (lines 183-186).
Upload ==
  /\ app.pc = "idle"
  /\ app.session = 0
  /\ CreateSessionIn("a.pdf")
  /\ app' = [app EXCEPT !.session = NewSessionId]
  /\ UNCHANGED PipelineVars

\* The form is submitted with a question (lines 219-223): a session is created
\* when there is none.
Submit(question) ==
  /\ app.pc = "idle"
  /\ IF app.session = 0
     THEN /\ CreateSessionIn("General Chat")
          /\ app' = [app EXCEPT !.pc = "send", !.question = question,
                                !.session = NewSessionId]
     ELSE /\ app' = [app EXCEPT !.pc = "send", !.question = question]
          /\ UNCHANGED <<files, now, call, raced, listing, shown>>
  /\ UNCHANGED PipelineVars

\* send_rag_query_event_sync returns the event id; wait_for_run_output starts
\* its clock (lines 226-227, 113-114).
SendQuery ==
  /\ app.pc = "send"
  /\ app' = [app EXCEPT !.pc = "fetch", !.sent = TRUE, !.elapsed = 0]
  /\ UNCHANGED <<files, now, call, raced, listing, shown, PipelineVars>>

\* The engine creates the run of the event that was sent.
RunCreated ==
  /\ app.sent
  /\ Trigger(1, AppQueryEvent(app.question))

\* fetch_runs answers (lines 116-124): the loop returns the output, raises the
\* run failure or goes on to its deadline check.
FetchAnswers(status, out) ==
  /\ app.pc = "fetch"
  /\ status \in ReportedStatuses(pc[1])
  /\ out \in ReportedOutputs(1)
  /\ app' = [app EXCEPT
       !.status = status,
       !.last_status = IF status # "none" THEN status ELSE @,
       !.pc = Classify(status),
       !.output = IF Classify(status) = "returned" THEN ReturnedOutput(out) ELSE @]
  /\ UNCHANGED <<files, now, call, raced, listing, shown, PipelineVars>>

\* fetch_runs raises (connection refused, raise_for_status): the exception
\* leaves wait_for_run_output.
FetchRaises ==
  /\ app.pc = "fetch"
  /\ app' = [app EXCEPT !.pc = "raised"]
  /\ UNCHANGED <<files, now, call, raced, listing, shown, PipelineVars>>

\* requests.get(url) carries no timeout: a request that is never answered never
\* returns.
FetchHangs ==
  /\ app.pc = "fetch"
  /\ app' = [app EXCEPT !.pc = "hung"]
  /\ UNCHANGED <<files, now, call, raced, listing, shown, PipelineVars>>

\* lines 125-126: the deadline check after a poll that did not end the loop.
CheckDeadline ==
  /\ app.pc = "check"
  /\ app' = [app EXCEPT !.pc = IF app.elapsed > PollTimeout THEN "timeout" ELSE "sleep"]
  /\ UNCHANGED <<files, now, call, raced, listing, shown, PipelineVars>>

\* line 127: time.sleep(poll_interval_s), then the next poll.
Sleep ==
  /\ app.pc = "sleep"
  /\ app' = [app EXCEPT !.pc = "fetch"]
  /\ UNCHANGED <<files, now, call, raced, listing, shown, PipelineVars>>

\* Time passes while wait_for_run_output runs.
PollTick ==
  /\ app.pc \in {"fetch", "check", "sleep"}
  /\ app.elapsed <= PollTimeout
  /\ app' = [app EXCEPT !.elapsed = @ + 1]
  /\ UNCHANGED <<files, now, call, raced, listing, shown, PipelineVars>>

\* lines 228-238: the answer is read from the output and, when there is one,
\* add_message is called for the current session.
HandleOutput ==
  /\ app.pc = "returned"
  /\ IF ShouldAppend(AnswerOf(app.output))
     THEN /\ AddLoadIn(1, app.session,
                [question |-> app.question, answer |-> AnswerOf(app.output),
                 timestamp |-> DateTimeNow, sources |-> SourcesOf(app.output)])
          /\ app' = [app EXCEPT !.pc = "adding"]
     ELSE /\ app' = [app EXCEPT !.pc = "done"]
          /\ UNCHANGED <<files, now, call, raced, listing, shown>>
  /\ UNCHANGED PipelineVars

\* add_message goes on inside the handler.
AppAddOpen == app.pc = "adding" /\ AddOpenIn(1) /\ UNCHANGED <<app, PipelineVars>>
AppAddWrite == app.pc = "adding" /\ AddWriteIn(1) /\ UNCHANGED <<app, PipelineVars>>

\* line 239: st.rerun() after add_message returned.
Rerun ==
  /\ app.pc = "adding"
  /\ call[1].pc = "done"
  /\ app' = [app EXCEPT !.pc = "done"]
  /\ UNCHANGED <<files, now, call, raced, listing, shown, PipelineVars>>

NextPoll ==
  \/ Upload
  \/ \E q \in {"q1", "q2"} : Submit(q)
  \/ SendQuery
  \/ RunCreated
  \/ Start(1)
  \/ BeginStep(1)
  \/ SearchOk(1)
  \/ SearchFails(1)
  \/ \E o \in LlmOutcomes : LlmAnswer(1, o)
  \/ Return(1)
  \/ Cancel(1)
  \/ \E st \in {"none", "Queued", "Running", "Completed", "Succeeded", "Success",
                "Finished", "Failed", "Cancelled"} :
       \E out \in ReportedOutputs(1) : FetchAnswers(st, out)
  \/ FetchRaises
  \/ FetchHangs
  \/ CheckDeadline
  \/ Sleep
  \/ PollTick
  \/ HandleOutput
  \/ AppAddOpen
  \/ AppAddWrite
  \/ Rerun

\* The handler's own steps are taken when they can be; time passes; the run of
\* the event may stay where it is for ever.
SpecPoll ==
  /\ Init
  /\ [][NextPoll]_vars
  /\ WF_vars(SendQuery)
  /\ WF_vars(\E st \in {"none", "Queued", "Running", "Completed", "Succeeded", "Success",
                        "Finished", "Failed", "Cancelled"} :
               \E out \in ReportedOutputs(1) : FetchAnswers(st, out))
  /\ WF_vars(CheckDeadline)
  /\ WF_vars(Sleep)
  /\ WF_vars(PollTick)

(* ====================== properties of the workflows =================== *)

IngestRuns == {r \in Runs : IsIngest(r)}
QueryRuns == {r \in Runs : IsQuery(r)}

\* The source identifier and the document of an ingest run.
SourceOf(r) == _load(ev[r]).source_id
PathOf(r) == ev[r].data.pdf_path

\* Positions of the store's records of one source.
RecordsOf(s) == {i \in 1..Len(store) : store[i].payload.source = s}

\* No run has written another document under the source of run r.
SameDocument(r) ==
  \A w \in IngestRuns : (hist[w].wrote /\ SourceOf(w) = SourceOf(r)) => PathOf(w) = PathOf(r)

(* C1, as stated: under crashes, transient failures and re-drives no
   side-effecting step executes twice for the same run: the batch is stored in
   the vector store at most once and the LLM request is sent at most once. *)
C1_NoSideEffectTwice ==
  \A r \in Runs : hist[r].stored <= 1 /\ hist[r].llm <= 1

(* C1, amended: each step is memoized (completes) at most once per run; a
   (re-)driven run never runs a memoized step again, it resumes at the first
   step without a memo; memoized outputs never change; and once the last
   side-effecting step is memoized its side effect is not issued again.  (A step
   that crashed or failed before its output was memoized does run again.) *)
C1_MemoizedStepsNeverRerun ==
  /\ [](\A r \in Runs :
          /\ cur[r] # 0 => cur[r] = Len(memo[r]) + 1
          /\ Len(memo[r]) <= 2
          /\ \A i \in 1..2 : hist[r].done[i] = IF i <= Len(memo[r]) THEN 1 ELSE 0)
  /\ [][\A r \in Runs :
          /\ Len(memo'[r]) >= Len(memo[r])
          /\ SubSeq(memo'[r], 1, Len(memo[r])) = memo[r]
          /\ Len(memo[r]) = 2 =>
               /\ hist'[r].upsert = hist[r].upsert
               /\ hist'[r].stored = hist[r].stored
               /\ hist'[r].llm = hist[r].llm]_vars

\* A run that crashed after its upsert was stored, was re-driven and succeeded.
C1_Witness ==
  \E r \in IngestRuns :
    /\ pc[r] = "Succeeded"
    /\ crashes[r] >= 1
    /\ hist[r].stored = 2
    /\ hist[r].done = <<1, 1>>

(* C2: an ingest run of a document with N chunks that crashed (before or during
   embed-and-upsert, after any number of stored points) and was re-driven to
   success leaves exactly N records of its source in the store, when no other
   document was written under that source. *)
C2_ResumeNoDuplicates ==
  \A r \in IngestRuns :
    (pc[r] = "Succeeded" /\ crashes[r] > 0 /\ SameDocument(r))
      => Cardinality(RecordsOf(SourceOf(r))) = DocLen(PathOf(r))

\* A run that crashed with part of its batch stored, then succeeded.
C2_Witness ==
  \E r \in IngestRuns :
    /\ pc[r] = "Succeeded"
    /\ crashes[r] = 1
    /\ hist[r].upsert = 2
    /\ SameDocument(r)
    /\ Cardinality(RecordsOf(SourceOf(r))) = MaxChunks

(* C5, as stated (its clause on permanent errors): a step that fails with a
   permanent error fails the run without further retries, so no run keeps
   running after a permanent error of its current step. *)
C5_PermanentErrorFailsRun ==
  \A r \in Runs : lastErr[r].cls = "permanent" => pc[r] # "Running"

(* C5, amended: a step that fails with an error of any class, transient or
   permanent, is retried until MaxAttempts attempts have failed, and then the
   run is Failed; the run is Failed only then, it has no output, and Failed is
   its status from then on. *)
C5_RetryUpToBoundThenFailed ==
  /\ [](\A r \in Runs :
          /\ attempts[r] <= MaxAttempts
          /\ pc[r] = "Failed" <=> attempts[r] = MaxAttempts
          /\ (lastErr[r].cls # "none" /\ attempts[r] < MaxAttempts)
               => pc[r] \in {"Running", "Cancelled"}
          /\ pc[r] = "Failed" => output[r] = NoOutput /\ lastErr[r].cls # "none")
  /\ [][\A r \in Runs : pc[r] = "Failed" => pc'[r] = "Failed"]_vars

\* A run whose step failed with a transient error, was retried and failed again.
C5_Witness ==
  \E r \in Runs :
    /\ pc[r] = "Failed"
    /\ attempts[r] = MaxAttempts
    /\ lastErr[r].cls = "transient"

Transitions ==
  { <<"Idle", "Queued">>, <<"Queued", "Running">>, <<"Queued", "Cancelled">>,
    <<"Running", "Succeeded">>, <<"Running", "Failed">>, <<"Running", "Cancelled">> }

(* C6: a run goes Queued -> Running -> {Succeeded, Failed, Cancelled}; a step
   body executes only in a Running run and only when every earlier step is
   memoized (step 2 never before step 1's output is in the memo); the three end
   states are never left and nothing of the run changes in them; Cancelled is
   entered only from Queued or Running and only while no step body executes. *)
C6_RunStateMachine ==
  /\ [](\A r \in Runs :
          /\ cur[r] # 0 => pc[r] = "Running" /\ Len(memo[r]) = cur[r] - 1
          /\ pc[r] = "Succeeded" => Len(memo[r]) = 2)
  /\ [][\A r \in Runs :
          /\ pc'[r] # pc[r] => <<pc[r], pc'[r]>> \in Transitions
          /\ pc[r] \in Terminal =>
               /\ pc'[r] = pc[r] /\ cur'[r] = cur[r] /\ memo'[r] = memo[r]
               /\ hist'[r] = hist[r] /\ output'[r] = output[r]
          /\ (pc'[r] = "Cancelled" /\ pc[r] # "Cancelled") => cur[r] = 0
          /\ Len(memo'[r]) > Len(memo[r]) =>
               cur[r] = Len(memo[r]) + 1 /\ Len(memo'[r]) = cur[r]]_vars

\* A run cancelled between its two steps: step 1 memoized, step 2 never run.
C6_Witness ==
  \E r \in Runs :
    /\ pc[r] = "Cancelled"
    /\ Len(memo[r]) = 1
    /\ hist[r].done = <<1, 0>>

(* C7: when the LLM request of the execution of llm-answer that is memoized
   failed (timeout, non-2xx, malformed body), the step completed once with the
   apology as its output, without an error or a counted attempt, no further LLM
   request is sent, the run is not Failed, it can return, and once Succeeded its
   output is the apology with the sources and the number of contexts of the
   search step. *)
C7_DegradeToApology ==
  /\ [](\A r \in QueryRuns : hist[r].llmFailed =>
          /\ Len(memo[r]) = 2 /\ memo[r][2] = Apology
          /\ hist[r].done = <<1, 1>>
          /\ attempts[r] = 0 /\ lastErr[r] = NoErr
          /\ pc[r] \in {"Running", "Succeeded", "Cancelled"}
          /\ pc[r] = "Running" => ENABLED Return(r)
          /\ pc[r] = "Succeeded" =>
               output[r] = [answer |-> Apology, sources |-> memo[r][1].sources,
                            num_contexts |-> Len(memo[r][1].contexts)])
  /\ [][\A r \in QueryRuns : hist[r].llmFailed => hist'[r].llm = hist[r].llm]_vars

\* A query that found a context, whose LLM request failed, and that succeeded.
C7_Witness ==
  \E r \in QueryRuns :
    /\ pc[r] = "Succeeded"
    /\ hist[r].llmFailed
    /\ output[r].answer = Apology
    /\ output[r].num_contexts = 1

(* C8: a query whose top_k is <= 0 is rejected before any step runs: the
   embedder, the search and the language model are not called for it and its
   run does not succeed. *)
C8_NonPositiveTopKRejected ==
  \A r \in QueryRuns :
    TopK(ev[r]) <= 0 =>
      /\ hist[r].embed = 0 /\ hist[r].search = 0 /\ hist[r].llm = 0
      /\ pc[r] # "Succeeded"

(* C9: an attempt in which embed_texts fails stores and uses nothing: it changes
   neither the vector store nor the run's memo, and it issues no upsert, no
   search and no LLM request. *)
C9_EmbedFailureAborts ==
  [][\A r \in Runs :
       (attempts'[r] = attempts[r] + 1 /\ lastErr'[r].at = "embed") =>
         /\ store' = store
         /\ memo'[r] = memo[r]
         /\ hist'[r].upsert = hist[r].upsert
         /\ hist'[r].search = hist[r].search
         /\ hist'[r].llm = hist[r].llm]_vars

\* An ingest run, in its upsert step, and a query run whose embedder failed.
C9_Witness ==
  /\ \E r \in IngestRuns :
       lastErr[r].at = "embed" /\ Len(memo[r]) = 1 /\ hist[r].upsert = 0
  /\ \E q \in QueryRuns : lastErr[q].at = "embed" /\ hist[q].search = 0

\* Ingest runs of the same event as run r whose upsert step is memoized.
CompletedLike(r) == {w \in IngestRuns : ev[w] = ev[r] /\ Len(memo[w]) = 2}

(* C10: after one or more completed ingest runs of a source with the same chunk
   sequence (and no other document written under that source) the store holds
   exactly one record per chunk index 0..N-1 of that source, each equal to the
   point the run builds for it; and an upsert step that finds all its points in
   the store leaves the store as it is. *)
C10_ReingestIdempotent ==
  /\ [](\A r \in IngestRuns : (CompletedLike(r) # {} /\ SameDocument(r)) =>
          LET batch == UpsertBatch(_load(ev[r]))
          IN /\ Cardinality(RecordsOf(SourceOf(r))) = Len(batch)
             /\ \A j \in 1..Len(batch) :
                  Cardinality({i \in 1..Len(store) : store[i] = batch[j]}) = 1)
  /\ [][\A r \in IngestRuns :
          (/\ cur[r] = 2 /\ Len(memo'[r]) = 2
           /\ \A j \in 1..Len(memo[r][1].chunks) :
                \E i \in 1..Len(store) : store[i] = UpsertBatch(memo[r][1])[j])
          => store' = store]_vars

\* Two completed ingest runs of the same event: the source has MaxChunks records.
C10_Witness ==
  \E r, w \in IngestRuns :
    /\ r # w /\ ev[r] = ev[w]
    /\ pc[r] = "Succeeded" /\ pc[w] = "Succeeded"
    /\ SameDocument(r)
    /\ Cardinality(RecordsOf(SourceOf(r))) = MaxChunks

(* ================== properties of the admission policy ================ *)

(* C3, as stated: at most ThrottleLimit ingest runs start in any window of one
   throttle period, and every trigger that arrives beyond that limit is kept
   queued and never dropped. *)
C3_TriggerBeyondLimitNeverDropped ==
  /\ Cardinality(RecentStarts) <= ThrottleLimit
  /\ \A r \in Runs : hist[r].beyond => pc[r] # "Skipped"

(* C3, amended: at most ThrottleLimit ingest runs start in any window of one
   throttle period; a trigger is dropped only by the rate limit of its key, on
   arrival; every trigger the rate limit lets through is queued, stays queued
   until it starts, and does start. *)
C3_ThrottleQueuesAdmittedTriggers ==
  /\ [](Cardinality(RecentStarts) <= ThrottleLimit)
  /\ [][\A r \in Runs :
          /\ pc[r] = "Queued" => pc'[r] \in {"Queued", "Running"}
          /\ (pc'[r] = "Skipped" /\ pc[r] # "Skipped") =>
               pc[r] = "Idle" /\ RecentAdmits(RateLimitKey(ev'[r])) # {}
          /\ (pc[r] = "Idle" /\ pc'[r] # "Idle"
                /\ RecentAdmits(RateLimitKey(ev'[r])) = {}) => pc'[r] = "Queued"]_vars
  /\ \A r \in Runs : (pc[r] = "Queued") ~> (startAge[r] >= 0)

\* A trigger that arrived with the throttle closed, was queued and has started
\* while the two earlier runs were started too.
C3_Witness ==
  \E r \in Runs :
    /\ hist[r].beyond
    /\ startAge[r] >= 0
    /\ Cardinality({w \in Runs : startAge[w] >= 0}) = ThrottleLimit + 1

(* C4: for every rate-limit key (event.data.source_id) at most RateLimitLimit
   events are let through per rate-limit period; an event that arrives while an
   event of its key was let through within the period is skipped; a skipped
   event stays skipped, and no step of it ever executes; and an event is skipped
   only because of an event of its own key, never of another. *)
C4_RateLimitPerSource ==
  /\ [](\A e \in SentIngestEvents :
          Cardinality(RecentAdmits(RateLimitKey(e))) <= RateLimitLimit)
  /\ [](\A r \in Runs : pc[r] = "Skipped" =>
          /\ cur[r] = 0 /\ memo[r] = <<>> /\ hist[r].done = <<0, 0>>
          /\ startAge[r] = -1 /\ admitAge[r] = -1)
  /\ [][\A r \in Runs :
          /\ pc[r] = "Skipped" => pc'[r] = "Skipped"
          /\ (pc[r] = "Idle" /\ pc'[r] # "Idle") =>
               (pc'[r] = "Skipped" <=>
                  \E w \in Runs \ {r} :
                    /\ admitAge[w] \in 0..(RateLimitPeriod - 1)
                    /\ ev[w].data.source_id = ev'[r].data.source_id)]_vars

\* A second event of a source is skipped inside the window of the first, whose
\* run has entered its first step, and an event of another key is let through.
C4_Witness ==
  \E r, w, x \in Runs :
    /\ w < r /\ r < x
    /\ pc[r] = "Skipped"
    /\ pc[x] = "Queued"
    /\ cur[w] = 1
    /\ RateLimitKey(ev[w]) = RateLimitKey(ev[r])
    /\ RateLimitKey(ev[x]) # RateLimitKey(ev[r])
    /\ admitAge[w] \in 1..(RateLimitPeriod - 1)
    /\ admitAge[x] = 0

(* ============== properties of the ingested records ==================== *)

(* C11, as stated: the source identifier of an ingest run is the event's
   source_id when it carries one, and the file name of pdf_path when it does
   not. *)
C11_SourceDefaultsToFileName ==
  \A r \in IngestRuns : Len(memo[r]) >= 1 =>
    memo[r][1].source_id =
      (IF "source_id" \in DOMAIN ev[r].data THEN ev[r].data.source_id
       ELSE FileName(ev[r].data.pdf_path))

\* The source identifiers the ingest events lead to.
Sources == {_load(e).source_id : e \in IngestEvents}

\* The points an ingest run of run r's event upserts.
BatchOf(r) == UpsertBatch(_load(ev[r]))

(* C19: no step removes a record or changes its id; a record changes only when
   an executing embed-and-upsert step of the same source upserts a point with
   its id, and then it becomes that point; so once a longer and a shorter
   document were both stored under one source, the records of the longer one
   at the indexes the shorter one lacks are still in the store as the longer
   run wrote them. *)
C19_IngestNeverDeletes ==
  /\ [][/\ Len(store') >= Len(store)
        /\ \A i \in 1..Len(store) :
             /\ store'[i].id = store[i].id
             /\ store'[i] # store[i] =>
                  \E r \in IngestRuns :
                    /\ cur[r] = 2
                    /\ memo[r][1].source_id = store[i].payload.source
                    /\ \E j \in 1..Len(memo[r][1].chunks) :
                         /\ UpsertBatch(memo[r][1])[j].id = store[i].id
                         /\ store'[i] = UpsertBatch(memo[r][1])[j]]_vars
  /\ [](\A r, w \in IngestRuns :
          (/\ SourceOf(r) = SourceOf(w)
           /\ hist[r].stored >= 1 /\ hist[w].stored >= 1
           /\ Len(BatchOf(r)) < Len(BatchOf(w)))
          => \A j \in (Len(BatchOf(r)) + 1)..Len(BatchOf(w)) :
               \E i \in 1..Len(store) : store[i] = BatchOf(w)[j])

\* The longer document was ingested, then the shorter one under the same source:
\* index 0 holds the shorter document's chunk, the last index still the longer's.
C19_Witness ==
  \E r, w \in IngestRuns :
    /\ pc[r] = "Succeeded" /\ pc[w] = "Succeeded"
    /\ SourceOf(r) = SourceOf(w)
    /\ Len(BatchOf(r)) < Len(BatchOf(w))
    /\ Cardinality(RecordsOf(SourceOf(w))) = Len(BatchOf(w))
    /\ \E i \in 1..Len(store) : store[i] = BatchOf(r)[1]
    /\ \E i \in 1..Len(store) : store[i] = BatchOf(w)[Len(BatchOf(w))]

(* C20: an ingest run that succeeded on a document of N chunks returned
   {ingested: N}; when its embed-and-upsert step completes, the store holds for
   every i in 0..N-1 the record with the id derived from "s:i", the vector of
   chunk i and the payload {source: s, text: chunk i}, and nothing but these N
   records was inserted or changed; ids of different (source, index) pairs
   differ. *)
C20_IngestUpsertsOnePointPerChunk ==
  /\ [](\A r \in IngestRuns : pc[r] = "Succeeded" =>
          output[r] = [ingested |-> Len(load_and_chunk_pdf(PathOf(r)))])
  /\ [][\A r \in IngestRuns : (cur[r] = 2 /\ Len(memo'[r]) = 2) =>
          LET s == SourceOf(r)
              cs == load_and_chunk_pdf(PathOf(r))
              N == Len(cs)
              ids == {<<"uuid5", s \o ":" \o ToString(i)>> : i \in 0..(N - 1)}
          IN /\ memo'[r][2] = [ingested |-> N]
             /\ \A i \in 0..(N - 1) :
                  \E k \in 1..Len(store') :
                    store'[k] = [id |-> <<"uuid5", s \o ":" \o ToString(i)>>,
                                 vector |-> embed_texts(cs)[i + 1],
                                 payload |-> [source |-> s, text |-> cs[i + 1]]]
             /\ Len(store') <= Len(store) + N
             /\ \A k \in 1..Len(store') :
                  (k > Len(store) \/ store'[k] # store[k]) => store'[k].id \in ids]_vars
  /\ [](\A s1, s2 \in Sources : \A i1, i2 \in 0..(MaxChunks - 1) :
          <<s1, i1>> # <<s2, i2>> => RecordId(s1, i1) # RecordId(s2, i2))

\* A run of the longest document succeeded: its output counts MaxChunks chunks
\* and the store holds that many records of its source.
C20_Witness ==
  \E r \in IngestRuns :
    /\ pc[r] = "Succeeded"
    /\ output[r] = [ingested |-> MaxChunks]
    /\ Cardinality(RecordsOf(SourceOf(r))) = MaxChunks

(* ================= properties of the session store ==================== *)

IsPrefix(a, b) == Len(a) <= Len(b) /\ SubSeq(b, 1, Len(a)) = a

\* Call c returns from its rewrite of the record in this step.
Saves(c) == call[c].pc = "opened" /\ call'[c].pc = "done"

(* C12: an add_message call on a session id that has no record returns at once
   without an error, leaves every record file as it is (none is created, none
   changed), and get_session_history of that id is still empty. *)
C12_UnknownSessionIsNoOp ==
  [][\A c \in Calls :
       (call[c].pc = "idle" /\ call'[c].pc # "idle" /\ files[call'[c].sid].state = "none")
       => /\ call'[c].pc = "done"
          /\ call'[c].outcome = "noop"
          /\ files' = files
          /\ get_session_history(files', call'[c].sid) = <<>>]_vars

\* add_message on an unknown id has returned while a session with a message exists.
C12_Witness ==
  \E c \in Calls, s \in SessionIds :
    /\ call[c].outcome = "noop"
    /\ files[call[c].sid].state = "none"
    /\ Len(get_session_history(files, s)) = 1

(* C13: for a session whose add_message calls were serialized: what
   get_session_history returns extends what it returned before (same messages in
   the same order, none removed); an add_message call makes the history the one
   it found with its message placed last, and changes no other record; and
   session_id, pdf_name and created_at of a session never change. *)
C13_SessionsAppendOnly ==
  /\ [][\A s \in SessionIds : shown[s] # <<>> =>
          /\ shown'[s] # <<>>
          /\ shown'[s][1].session_id = shown[s][1].session_id
          /\ shown'[s][1].pdf_name = shown[s][1].pdf_name
          /\ shown'[s][1].created_at = shown[s][1].created_at
          /\ s \notin raced' => IsPrefix(shown[s][1].messages, shown'[s][1].messages)]_vars
  /\ [][\A c \in Calls : (Saves(c) /\ call[c].sid \notin raced) =>
          /\ get_session_history(files', call[c].sid) =
               Append(call[c].snap[1].messages, call[c].msg[1])
          /\ \A t \in SessionIds \ {call[c].sid} : files'[t] = files[t]]_vars
  /\ [](\A s \in SessionIds : files[s].state = "full" =>
          _load_session(files, s)[1].session_id = s)

\* Two serialized add_message calls on one session: its history was seen with
\* one message and now holds two.
C13_Witness ==
  \E s \in SessionIds \ raced :
    /\ shown[s] # <<>>
    /\ Len(shown[s][1].messages) = 1
    /\ Len(get_session_history(files, s)) = 2
    /\ \A c \in Calls : call[c].sid = s /\ call[c].outcome = "saved"

(* C14: a step of an add_message call changes no record of another session, and
   on a session whose calls did not overlap every call that returned has its
   message in the history (the update lost by two overlapping calls is the
   state C14_Witness describes). *)
C14_WritersOfOtherSessionsUnaffected ==
  /\ [][\A c \in Calls : call'[c] # call[c] =>
          \A t \in SessionIds \ {call'[c].sid} : files'[t] = files[t]]_vars
  /\ [](\A s \in SessionIds \ raced : files[s].state = "full" =>
          \A c \in Calls : (call[c].sid = s /\ call[c].outcome = "saved") =>
            \E i \in 1..Len(get_session_history(files, s)) :
              get_session_history(files, s)[i] = call[c].msg[1])

\* The lost update: two add_message calls on one session have both returned and
\* its stored history holds one message.
C14_Witness ==
  \E c, d \in Calls :
    /\ c # d /\ call[c].sid = call[d].sid
    /\ call[c].outcome = "saved" /\ call[d].outcome = "saved"
    /\ files[call[c].sid].state = "full"
    /\ Len(get_session_history(files, call[c].sid)) = 1

\* The session ids of a listing, in its order.
ListedIds(l) == [i \in 1..Len(l.sessions) |-> l.sessions[i].session_id]

(* C17: get_all_sessions returns every stored session exactly once, as stored,
   and no session comes before one created later; add_message leaves created_at
   as it is, so two listings of the same sessions with different creation times
   are in the same order. *)
C17_SessionsListedNewestFirst ==
  /\ [][(listing' # listing /\ listing'.status = "ok") =>
          LET L == listing'.sessions
          IN /\ Len(L) = Cardinality(Stored(files))
             /\ \A s \in Stored(files) :
                  /\ Cardinality({i \in 1..Len(L) : L[i].session_id = s}) = 1
                  /\ \E i \in 1..Len(L) : L[i] = _load_session(files, s)[1]
             /\ \A i, j \in 1..Len(L) :
                  i < j => ~Later(L[j].created_at, L[i].created_at)]_vars
  /\ [][\A c \in Calls : Saves(c) =>
          _load_session(files', call[c].sid)[1].created_at = call[c].snap[1].created_at]_vars
  /\ [][(/\ listing.status = "ok" /\ listing'.status = "ok"
         /\ Len(listing.sessions) = Len(listing'.sessions)
         /\ \A i, j \in 1..Len(listing.sessions) :
              i # j => listing.sessions[i].created_at # listing.sessions[j].created_at)
        => ListedIds(listing') = ListedIds(listing)]_vars

\* A listing of two sessions created at different times, the older of which has
\* a message: the newer one is listed first.
C17_Witness ==
  /\ listing.status = "ok"
  /\ Len(listing.sessions) = 2
  /\ Later(listing.sessions[1].created_at, listing.sessions[2].created_at)
  /\ Len(listing.sessions[2].messages) >= 1
  /\ listing.sessions[1].session_id > listing.sessions[2].session_id

(* =========== properties of the query form and its polling ============= *)

(* C15: a poll that is answered reads the status of the run of the event; the
   loop returns if and only if that status is Completed, Succeeded, Success or
   Finished, and what it returns is the run's output (the empty output where
   the endpoint gives none); it raises the run failure if and only if the
   status is Failed or Cancelled; on any other status, and on an empty list of
   runs, it does neither and goes on: to the deadline check, then the sleep,
   then the next poll. *)
C15_PollClassifiesStatus ==
  /\ [][(app.pc = "fetch" /\ app'.pc \notin {"fetch", "raised", "hung"}) =>
          /\ app'.status \in ReportedStatuses(pc[1])
          /\ app'.pc = "returned" <=>
               app'.status \in {"Completed", "Succeeded", "Success", "Finished"}
          /\ app'.pc = "returned" =>
               app'.output \in {output[1], EmptyDict} /\ pc[1] = "Succeeded"
          /\ app'.pc = "failed" <=> app'.status \in {"Failed", "Cancelled"}
          /\ app'.pc \notin {"returned", "failed"} => app'.pc = "check"]_vars
  /\ [][app.pc = "check" =>
          /\ app'.pc \in {"check", "sleep", "timeout"}
          /\ app'.pc = "timeout" => app.elapsed > PollTimeout]_vars
  /\ [][app.pc = "sleep" => app'.pc \in {"sleep", "fetch"}]_vars

\* After polls that found the run unfinished, a poll found it Finished and the
\* loop returned its output.
C15_Witness ==
  /\ app.pc = "returned"
  /\ app.status = "Finished"
  /\ app.output = output[1]
  /\ app.elapsed >= 1

\* wait_for_run_output has ended: it returned (and the handler went on) or raised.
WaitEnded == app.pc \in {"returned", "failed", "timeout", "raised", "adding", "done"}

(* C16, as stated: wait_for_run_output never blocks for ever: whatever the runs
   endpoint does, a call that has started eventually ends, by returning or by
   raising. *)
C16_WaitNeverBlocksForever == (app.pc = "fetch") ~> WaitEnded

(* C18: no step of the query workflow changes the session store; add_message is
   called only by the form handler, only after wait_for_run_output returned the
   output of the succeeded run on a terminal-success status, only with a
   non-empty answer, and with that question, answer and sources for the current
   session; a record changes only in that call, or when a session is created
   before the query is sent; and when the run failed or was cancelled, or the
   polling timed out or raised, no message is stored. *)
C18_StoreWrittenByCallerAfterSuccess ==
  /\ [][PipelineVars' # PipelineVars => (files' = files /\ call' = call)]_vars
  /\ [][(call[1].pc = "idle" /\ call'[1].pc # "idle") =>
          /\ app.pc = "returned"
          /\ app.status \in {"Completed", "Succeeded", "Success", "Finished"}
          /\ pc[1] = "Succeeded"
          /\ app.output = output[1]
          /\ output[1].answer # ""
          /\ call'[1].sid = app.session
          /\ call'[1].msg # <<>>
          /\ call'[1].msg[1].question = app.question
          /\ call'[1].msg[1].answer = output[1].answer
          /\ call'[1].msg[1].sources = output[1].sources]_vars
  /\ [][\A s \in SessionIds : files'[s] # files[s] =>
          \/ app.pc = "adding" /\ s = app.session
          \/ app.pc = "idle" /\ files[s].state = "none"]_vars
  /\ [](app.pc \in {"failed", "timeout", "raised", "hung"} =>
          /\ call[1].pc = "idle"
          /\ \A s \in SessionIds : get_session_history(files, s) = <<>>)

\* The handler is through: the current session holds one message, the question
\* with the answer of the succeeded run.
C18_Witness ==
  /\ app.pc = "done"
  /\ pc[1] = "Succeeded"
  /\ Len(get_session_history(files, app.session)) = 1
  /\ get_session_history(files, app.session)[1].question = app.question
  /\ get_session_history(files, app.session)[1].answer = output[1].answer

====
